---- MODULE Spec2Model ----
(***************************************************************************)
(* Model of load_data_sets.py (MuGo): the test/training splitter, the      *)
(* pipeline driver process_raw_data, the DataSet batch iterator, the chunk *)
(* codec and the one-hot encoder.                                          *)
(*                                                                         *)
(* The position stream, a chain of the get_positions_from_sgf generators,  *)
(* is modelled by the sequence of events a consumer observes from next():  *)
(* a record (a positive integer, its place in the corpus) or IOError, the  *)
(* exception a per-file generator raises when open/read/parse fails.  A    *)
(* generator that raised is finished, so the chain's following next()      *)
(* moves on to the next file: records may follow an IOError event.         *)
(*                                                                         *)
(* The sizes 4096 (CHUNK_SIZE), 10**5 (desired_test_size) and 200 (moves   *)
(* per game) are scaled down; the code only ever compares and counts with  *)
(* them, and every property below is stated in terms of their names.       *)
(***************************************************************************)
EXTENDS Integers, Sequences, FiniteSets, TLC

\* ---------------------------------------------------------------- bounds
CHUNK_SIZE == 3           \* stands for 4096
desired_test_size == 4    \* stands for 10**5
MOVES_PER_GAME == 2       \* stands for 200
MaxFiles == 5             \* .sgf files found
MaxErrors == 2            \* files whose generator raises
MaxData == 3              \* examples in a DataSet, batch sizes varying
MaxEpochData == 5         \* examples in a DataSet, batch size fixed
MaxLiveData == 4          \* the same, in the runs that never end
MaxFrameData == 3         \* examples in a DataSet that is also written
MaxAliasData == 3         \* examples in a DataSet whose batches are kept
MaxHeld == 2              \* batches the caller keeps hold of
MaxChunkData == 2         \* examples in a DataSet that is written and read
MaxBoard == 2             \* board edge length of such a DataSet
MaxPlanes == 2            \* feature planes of such a DataSet
MaxLabels == 2            \* move indices given to make_onehot
MaxClasses == 3           \* small class counts, enumerated exhaustively

\* events enough for a full test subset, two full groups and a short one
MaxEvents == desired_test_size + 2 * CHUNK_SIZE + 2

IOError == 0

Min(a, b) == IF a < b THEN a ELSE b

\* ------------------------------------------------------------ the stream
\* A stream of len events whose events at the positions errs are IOError
\* and whose other events are the records 1, 2, ... in order.
Stream(len, errs) ==
    [i \in 1..len |->
        IF i \in errs THEN IOError ELSE i - Cardinality({j \in errs : j < i})]

Streams(maxErr) ==
    {Stream(len, errs) : <<len, errs>> \in
        {le \in (0..MaxEvents) \X SUBSET (1..MaxEvents) :
            /\ le[2] \subseteq 1..le[1]
            /\ Cardinality(le[2]) <= maxErr}}

Records(s) == SelectSeq(s, LAMBDA x : x # IOError)

ErrorPositions(s) == {i \in 1..Len(s) : s[i] = IOError}

\* next(iterator) at event position pos
next(s, pos) ==
    IF pos >= Len(s) THEN [kind |-> "StopIteration", pos |-> pos]
    ELSE IF s[pos + 1] = IOError THEN [kind |-> "IOError", pos |-> pos + 1]
    ELSE [kind |-> "item", item |-> s[pos + 1], pos |-> pos + 1]

\* the loop `for i in range(n): result.append(next(iterator))`
RECURSIVE take_loop(_, _, _, _)
take_loop(k, s, pos, result) ==
    IF k = 0 THEN [result |-> result, pos |-> pos, exception |-> "none"]
    ELSE LET x == next(s, pos)
         IN  IF x.kind = "item"
             THEN take_loop(k - 1, s, x.pos, Append(result, x.item))
             ELSE [result |-> result, pos |-> x.pos, exception |-> x.kind]

\* take_n with range(n + 1): one next() call too many
take_n_one_more(n, s, pos) ==
    LET l == take_loop(n + 1, s, pos, <<>>)
    IN  [result |-> l.result, pos |-> l.pos, raised |-> FALSE]

\* take_n(n, iterator).  StopIteration is passed over by the except clause;
\* the `return` in the finally clause discards any other exception in
\* flight, so the partial result is returned and nothing is raised.
take_n(n, s, pos) ==
    LET l == take_loop(n, s, pos, <<>>)
    IN  [result |-> l.result, pos |-> l.pos, raised |-> FALSE]

\* iter_chunks that takes two chunks' worth of records at a time
iter_chunks_double(chunk_size, s, pos) ==
    LET t == take_n(2 * chunk_size, s, pos)
    IN  [yielded |-> t.result # <<>>, chunk |-> t.result, pos |-> t.pos]

\* One resumption of the iter_chunks generator: the next chunk is yielded
\* unless it is empty, in which case the generator finishes.
iter_chunks(chunk_size, s, pos) ==
    LET t == take_n(chunk_size, s, pos)
    IN  [yielded |-> t.result # <<>>, chunk |-> t.result, pos |-> t.pos]

\* list(iterator): consumes to the end; an exception propagates.
RECURSIVE list_loop(_, _, _)
list_loop(s, pos, result) ==
    LET x == next(s, pos)
    IN  IF x.kind = "item" THEN list_loop(s, x.pos, Append(result, x.item))
        ELSE [result |-> result, pos |-> x.pos,
              raised |-> x.kind # "StopIteration"]

list(s, pos) == list_loop(s, pos, <<>>)

\* the split taken at the half instead of the third
test_size_half(n) == n \div 2

test_size(n) == n \div 3

IsSmall(est) == est < 2 * desired_test_size

\* split_test_training: the pair returned (test, training) and the
\* iterator position afterwards.  training is a list of one group in the
\* small branch and a not yet started generator in the large branch.
split_test_training(s, pos, est) ==
    IF IsSmall(est)
    THEN LET l  == list(s, pos)
             ts == test_size(Len(l.result))
         IN  [raised |-> l.raised, pos |-> l.pos,
              test |-> SubSeq(l.result, 1, ts),
              training |-> [kind |-> "list",
                            items |-> << SubSeq(l.result, ts + 1, Len(l.result)) >>,
                            next |-> 1]]
    ELSE LET t == take_n(desired_test_size, s, pos)
         IN  [raised |-> t.raised, pos |-> t.pos,
              test |-> t.result,
              training |-> [kind |-> "gen", done |-> FALSE]]

\* next(training_chunks): on the list of the small branch, or on the
\* iter_chunks generator of the large branch.
next_training(tc, s, pos) ==
    IF tc.kind = "list"
    THEN IF tc.next <= Len(tc.items)
         THEN [got |-> TRUE, chunk |-> tc.items[tc.next],
               tc |-> [tc EXCEPT !.next = @ + 1], pos |-> pos]
         ELSE [got |-> FALSE, chunk |-> <<>>, tc |-> tc, pos |-> pos]
    ELSE IF tc.done
         THEN [got |-> FALSE, chunk |-> <<>>, tc |-> tc, pos |-> pos]
         ELSE LET c == iter_chunks(CHUNK_SIZE, s, pos)
              IN  IF c.yielded
                  THEN [got |-> TRUE, chunk |-> c.chunk, tc |-> tc, pos |-> c.pos]
                  ELSE [got |-> FALSE, chunk |-> <<>>,
                        tc |-> [tc EXCEPT !.done = TRUE], pos |-> c.pos]

\* ------------------------------------------------------------------ state
VARIABLES
    stream,           \* events of positions_w_context
    it_pos,           \* events consumed from the stream so far
    num_files,        \* len(sgf_files)
    est_num_positions,
    pc,               \* position of the caller
    test_chunk,
    training_chunks,  \* the list iterator / generator returned by the split
    groups,           \* training groups obtained so far, in order
    written,          \* chunk files written so far, in order
    train_dataset,    \* the DataSet of the loop, not yet written
    i,                \* the loop variable of process_raw_data (-1: unbound)
    exc,              \* exception that left the call ("" = none)
    ds,               \* the DataSet the training loop draws batches from
    fixed_b,          \* the caller's batch size (0: it varies per call)
    last_call,        \* the latest get_batch call and what it returned
    epoch_log,        \* batches returned since the latest reshuffle
    reshuffled_once,  \* a reshuffle has happened
    order,            \* the composition of the permutations drawn so far
    held,             \* the batches the caller still refers to, oldest first
    hold_limit,       \* how many batches the caller keeps (0: none)
    byteorder,        \* the machine's native byte order
    chunk_file,       \* the bytes of the chunk file, once decompressed
    codec_pc,         \* "new", then "written", then "read"
    read_result,      \* what DataSet.read returned
    read_offset,      \* bytes the reader has consumed
    dense_labels,     \* the move indices given to make_onehot
    num_classes,
    int16_wraps,      \* whether this numpy wraps an out-of-range int16
    labels_one_hot    \* what make_onehot returned (pending: not called yet)

pipeVars == <<stream, it_pos, num_files, est_num_positions, pc, test_chunk,
              training_chunks, groups, written, train_dataset, i, exc>>
dsVars == <<ds, fixed_b, last_call, epoch_log, reshuffled_once, order, held,
            hold_limit>>

codecVars == <<byteorder, chunk_file, codec_pc, read_result, read_offset>>

ohVars == <<dense_labels, num_classes, int16_wraps, labels_one_hot>>

vars == <<pipeVars, dsVars, codecVars, ohVars>>

NoTraining == [kind |-> "none"]
NoDataSet == [recs |-> <<>>, is_test |-> FALSE, built |-> FALSE]

NoArray == [shape |-> <<0>>, data |-> <<>>]
NoCall == [batch_size |-> 0, outcome |-> "none", features |-> NoArray,
           moves |-> NoArray, shuffled |-> FALSE]

IdleDS ==
    /\ ds = [data_size |-> 0]
    /\ fixed_b = 0
    /\ last_call = NoCall
    /\ epoch_log = <<>>
    /\ reshuffled_once = FALSE
    /\ held = <<>>
    /\ hold_limit = 0
    /\ order = <<>>

Pending == [status |-> "pending"]

IdleOneHot ==
    /\ dense_labels = <<>>
    /\ num_classes = 0
    /\ int16_wraps = FALSE
    /\ labels_one_hot = [status |-> "idle"]

IdleCodec ==
    /\ byteorder = "little"
    /\ chunk_file = <<>>
    /\ codec_pc = "idle"
    /\ read_result = [raised |-> FALSE]
    /\ read_offset = 0

IdlePipe ==
    /\ stream = <<>>
    /\ it_pos = 0
    /\ num_files = 0
    /\ est_num_positions = 0
    /\ pc = "idle"
    /\ test_chunk = <<>>
    /\ training_chunks = NoTraining
    /\ groups = <<>>
    /\ written = <<>>
    /\ train_dataset = NoDataSet
    /\ i = -1
    /\ exc = ""

\* ------------------------------------------------- splitter on its own
EstCounts == 0..(2 * desired_test_size + MOVES_PER_GAME)

InitSplit ==
    /\ stream \in Streams(0)
    /\ est_num_positions \in EstCounts
    /\ num_files = 0
    /\ it_pos = 0
    /\ pc = "start"
    /\ test_chunk = <<>>
    /\ training_chunks = NoTraining
    /\ groups = <<>>
    /\ written = <<>>
    /\ train_dataset = NoDataSet
    /\ i = -1
    /\ exc = ""
    /\ IdleDS
    /\ IdleCodec
    /\ IdleOneHot

\* the call split_test_training(positions_w_context, est_num_positions)
Split ==
    /\ UNCHANGED <<dsVars, codecVars, ohVars>>
    /\ pc = "start"
    /\ LET r == split_test_training(stream, it_pos, est_num_positions)
       IN  /\ it_pos' = r.pos
           /\ IF r.raised
              THEN /\ pc' = "raised"
                   /\ exc' = "IOError"
                   /\ UNCHANGED <<test_chunk, training_chunks>>
              ELSE /\ pc' = "split"
                   /\ test_chunk' = r.test
                   /\ training_chunks' = r.training
                   /\ exc' = exc
    /\ UNCHANGED <<stream, num_files, est_num_positions, groups, written,
                   train_dataset, i>>

\* the caller iterates over the training groups
NextGroup ==
    /\ UNCHANGED <<dsVars, codecVars, ohVars>>
    /\ pc = "split"
    /\ LET r == next_training(training_chunks, stream, it_pos)
       IN  /\ it_pos' = r.pos
           /\ training_chunks' = r.tc
           /\ groups' = IF r.got THEN Append(groups, r.chunk) ELSE groups
           /\ pc' = IF r.got THEN pc ELSE "exhausted"
    /\ UNCHANGED <<stream, num_files, est_num_positions, test_chunk, written,
                   train_dataset, i, exc>>

NextSplit == Split \/ NextGroup

SpecSplit == InitSplit /\ [][NextSplit]_vars

\* ------------------------------------------------------ process_raw_data
\* DataSet.from_positions_w_context: zip(*positions_w_context) of an empty
\* collection yields nothing to unpack into the three names (ValueError).
from_positions_w_context(recs, is_test) ==
    IF recs = <<>>
    THEN [raised |-> TRUE, dataset |-> NoDataSet]
    ELSE [raised |-> FALSE,
          dataset |-> [recs |-> recs, is_test |-> is_test, built |-> TRUE]]

\* training chunks numbered from 1
train_filename_from_one(k) == <<"train", k + 1>>

test_filename == <<"test">>
train_filename(k) == <<"train", k>>

\* dataset.write(filename)
write(dataset, filename) ==
    [name |-> filename, recs |-> dataset.recs, is_test |-> dataset.is_test]

InitPipe ==
    /\ num_files \in 0..MaxFiles
    /\ est_num_positions = num_files * MOVES_PER_GAME
    /\ stream \in Streams(Min(MaxErrors, num_files))
    /\ num_files = 0 => stream = <<>>
    /\ it_pos = 0
    /\ pc = "start"
    /\ test_chunk = <<>>
    /\ training_chunks = NoTraining
    /\ groups = <<>>
    /\ written = <<>>
    /\ train_dataset = NoDataSet
    /\ i = -1
    /\ exc = ""
    /\ IdleDS
    /\ IdleCodec
    /\ IdleOneHot

\* line 139: the split
P_Split ==
    /\ UNCHANGED <<dsVars, codecVars, ohVars>>
    /\ pc = "start"
    /\ LET r == split_test_training(stream, it_pos, est_num_positions)
       IN  /\ it_pos' = r.pos
           /\ IF r.raised
              THEN /\ pc' = "raised"
                   /\ exc' = "IOError"
                   /\ UNCHANGED <<test_chunk, training_chunks>>
              ELSE /\ pc' = "write_test"
                   /\ test_chunk' = r.test
                   /\ training_chunks' = r.training
                   /\ exc' = exc
    /\ UNCHANGED <<stream, num_files, est_num_positions, groups, written,
                   train_dataset, i>>

\* lines 142-145: build and write the test chunk
P_WriteTest ==
    /\ UNCHANGED <<dsVars, codecVars, ohVars>>
    /\ pc = "write_test"
    /\ LET d == from_positions_w_context(test_chunk, TRUE)
       IN  IF d.raised
           THEN /\ pc' = "raised"
                /\ exc' = "ValueError"
                /\ written' = written
           ELSE /\ pc' = "loop"
                /\ exc' = exc
                /\ written' = Append(written, write(d.dataset, test_filename))
    /\ UNCHANGED <<stream, it_pos, num_files, est_num_positions, test_chunk,
                   training_chunks, groups, train_dataset, i>>

\* lines 147-148: the for statement asks the map for the next DataSet,
\* which pulls the next training group and builds its DataSet
P_NextTrain ==
    /\ UNCHANGED <<dsVars, codecVars, ohVars>>
    /\ pc = "loop"
    /\ LET r == next_training(training_chunks, stream, it_pos)
           d == from_positions_w_context(r.chunk, FALSE)
       IN  /\ it_pos' = r.pos
           /\ training_chunks' = r.tc
           /\ IF ~r.got
              THEN /\ pc' = "end"
                   /\ UNCHANGED <<groups, train_dataset, i, exc>>
              ELSE /\ groups' = Append(groups, r.chunk)
                   /\ IF d.raised
                      THEN /\ pc' = "raised"
                           /\ exc' = "ValueError"
                           /\ UNCHANGED <<train_dataset, i>>
                      ELSE /\ pc' = "write_train"
                           /\ train_dataset' = d.dataset
                           /\ i' = i + 1
                           /\ exc' = exc
    /\ UNCHANGED <<stream, num_files, est_num_positions, test_chunk, written>>

\* lines 149-152: the loop body
P_WriteTrain ==
    /\ UNCHANGED <<dsVars, codecVars, ohVars>>
    /\ pc = "write_train"
    /\ written' = Append(written, write(train_dataset, train_filename(i)))
    /\ pc' = "loop"
    /\ UNCHANGED <<stream, it_pos, num_files, est_num_positions, test_chunk,
                   training_chunks, groups, train_dataset, i, exc>>

\* line 153: print("%s chunks written" % (i+1)); i is unbound when the loop
\* body never ran
P_Finish ==
    /\ UNCHANGED <<dsVars, codecVars, ohVars>>
    /\ pc = "end"
    /\ IF i = -1
       THEN pc' = "raised" /\ exc' = "UnboundLocalError"
       ELSE pc' = "done" /\ exc' = exc
    /\ UNCHANGED <<stream, it_pos, num_files, est_num_positions, test_chunk,
                   training_chunks, groups, written, train_dataset, i>>

NextPipe == P_Split \/ P_WriteTest \/ P_NextTrain \/ P_WriteTrain \/ P_Finish

SpecPipe == InitPipe /\ [][NextPipe]_vars

\* ---------------------------------------------------------------- DataSet
\* An array is its shape and its elements in row-major order.
RECURSIVE Product(_)
Product(sh) == IF sh = <<>> THEN 1 ELSE Head(sh) * Product(Tail(sh))

RowLen(a) == Product(Tail(a.shape))
NumRows(a) == a.shape[1]
Row(a, r) == SubSeq(a.data, (r - 1) * RowLen(a) + 1, r * RowLen(a))

\* a[perm]: the rows of a in the order perm names them
TakeRows(a, perm) ==
    LET w == RowLen(a)
    IN  [shape |-> <<Len(perm)>> \o Tail(a.shape),
         data |-> [j \in 1..(Len(perm) * w) |->
                     a.data[(perm[((j - 1) \div w) + 1] - 1) * w + ((j - 1) % w) + 1]]]

\* a[start:end], rows counted from 0, end clipped to the number of rows
Slice(a, start, end) ==
    LET hi == Min(end, NumRows(a))
        lo == Min(start, hi)
    IN  [shape |-> <<hi - lo>> \o Tail(a.shape),
         data |-> SubSeq(a.data, lo * RowLen(a) + 1, hi * RowLen(a))]

\* DataSet.__init__
DataSet(pos_features, next_moves, results, is_test) ==
    [raised |-> pos_features.shape[1] # next_moves.shape[1],
     ds |-> [pos_features |-> pos_features,
             next_moves |-> next_moves,
             results |-> results,
             is_test |-> is_test,
             data_size |-> pos_features.shape[1],
             board_size |-> pos_features.shape[2],
             input_planes |-> pos_features.shape[Len(pos_features.shape)],
             index_within_epoch |-> 0]]

\* the assertion written with <=
batch_precondition_le(batch_size, data_size) == batch_size <= data_size

\* assert batch_size < self.data_size
batch_precondition(batch_size, data_size) == batch_size < data_size

\* a new epoch only once the cursor has reached the end
epoch_over_late(index, batch_size, data_size) == index >= data_size

\* a new epoch already when the batch would end exactly at the last row
epoch_over_eager(index, batch_size, data_size) == index + batch_size >= data_size

\* the test that starts a new epoch
epoch_over(index, batch_size, data_size) == index + batch_size > data_size

\* get_batch that shuffles at the end of an epoch but leaves the cursor
get_batch_no_reset(d, batch_size, perm) ==
    IF ~batch_precondition(batch_size, d.data_size)
    THEN [raised |-> TRUE, ds |-> d, shuffled |-> FALSE,
          features |-> NoArray, moves |-> NoArray]
    ELSE LET shuffle == epoch_over(d.index_within_epoch, batch_size, d.data_size)
             d1 == IF shuffle
                   THEN [d EXCEPT !.pos_features = TakeRows(@, perm),
                                  !.next_moves = TakeRows(@, perm)]
                   ELSE d
             start == d1.index_within_epoch
             end == start + batch_size
         IN  [raised |-> FALSE,
              ds |-> [d1 EXCEPT !.index_within_epoch = @ + batch_size],
              shuffled |-> shuffle,
              features |-> Slice(d1.pos_features, start, end),
              moves |-> Slice(d1.next_moves, start, end)]

\* get_batch that reorders results along with the two arrays
get_batch_with_results(d, batch_size, perm) ==
    IF ~batch_precondition(batch_size, d.data_size)
    THEN [raised |-> TRUE, ds |-> d, shuffled |-> FALSE,
          features |-> NoArray, moves |-> NoArray]
    ELSE LET shuffle == epoch_over(d.index_within_epoch, batch_size, d.data_size)
             d1 == IF shuffle
                   THEN [d EXCEPT !.pos_features = TakeRows(@, perm),
                                  !.next_moves = TakeRows(@, perm),
                                  !.results = [j \in 1..Len(perm) |-> @[perm[j]]],
                                  !.index_within_epoch = 0]
                   ELSE d
             start == d1.index_within_epoch
             end == start + batch_size
         IN  [raised |-> FALSE,
              ds |-> [d1 EXCEPT !.index_within_epoch = @ + batch_size],
              shuffled |-> shuffle,
              features |-> Slice(d1.pos_features, start, end),
              moves |-> Slice(d1.next_moves, start, end)]

\* get_batch that reorders pos_features only
get_batch_features_only(d, batch_size, perm) ==
    IF ~batch_precondition(batch_size, d.data_size)
    THEN [raised |-> TRUE, ds |-> d, shuffled |-> FALSE,
          features |-> NoArray, moves |-> NoArray]
    ELSE LET shuffle == epoch_over(d.index_within_epoch, batch_size, d.data_size)
             d1 == IF shuffle
                   THEN [d EXCEPT !.pos_features = TakeRows(@, perm),
                                  !.index_within_epoch = 0]
                   ELSE d
             start == d1.index_within_epoch
             end == start + batch_size
         IN  [raised |-> FALSE,
              ds |-> [d1 EXCEPT !.index_within_epoch = @ + batch_size],
              shuffled |-> shuffle,
              features |-> Slice(d1.pos_features, start, end),
              moves |-> Slice(d1.next_moves, start, end)]

\* DataSet.get_batch(batch_size); perm is what np.random.shuffle leaves
get_batch(d, batch_size, perm) ==
    IF ~batch_precondition(batch_size, d.data_size)
    THEN [raised |-> TRUE, ds |-> d, shuffled |-> FALSE,
          features |-> NoArray, moves |-> NoArray]
    ELSE LET shuffle == epoch_over(d.index_within_epoch, batch_size, d.data_size)
             d1 == IF shuffle
                   THEN [d EXCEPT !.pos_features = TakeRows(@, perm),
                                  !.next_moves = TakeRows(@, perm),
                                  !.index_within_epoch = 0]
                   ELSE d
             start == d1.index_within_epoch
             end == start + batch_size
         IN  [raised |-> FALSE,
              ds |-> [d1 EXCEPT !.index_within_epoch = @ + batch_size],
              shuffled |-> shuffle,
              features |-> Slice(d1.pos_features, start, end),
              moves |-> Slice(d1.next_moves, start, end)]

\* a[start:end] on line 103 is a view: it shares the storage of the array
\* a it was sliced from.  A view is modelled by the array it refers to, by
\* whether that array is the one the DataSet's attribute is bound to, and
\* by its row range.
view(a, start, end) ==
    [base |-> a, of_current |-> TRUE, start |-> start, end |-> end]

\* the elements one sees through a view
contents(v) == Slice(v.base, v.start, v.end)

\* a reorder done in the storage that the views share
after_reorder_in_place(v, reordered) ==
    IF v.of_current THEN [v EXCEPT !.base = reordered] ELSE v

\* lines 97, 98: a[perm] with an index array is a new array with storage
\* of its own, and the attribute is bound to it; the array that a view
\* handed out earlier refers to is no longer the DataSet's and is not
\* written to
after_reorder(v, reordered) ==
    IF v.of_current THEN [v EXCEPT !.of_current = FALSE] ELSE v

\* the last n elements of a sequence
LastN(q, n) == SubSeq(q, Len(q) - Min(n, Len(q)) + 1, Len(q))

Perms(n) == Permutations(1..n)
Identity(n) == [k \in 1..n |-> k]

\* the orders np.random.shuffle can leave in perm; it only runs when the
\* assertion holds and the epoch is over
Shuffles(d, batch_size) ==
    IF /\ batch_precondition(batch_size, d.data_size)
       /\ epoch_over(d.index_within_epoch, batch_size, d.data_size)
    THEN Perms(d.data_size)
    ELSE {Identity(d.data_size)}

\* example k has the feature row <<k>>, the move row <<-k>> and result k
NewDataSet(n, is_test) ==
    DataSet([shape |-> <<n, 1, 1, 1>>, data |-> [k \in 1..n |-> k]],
            [shape |-> <<n, 1>>, data |-> [k \in 1..n |-> 0 - k]],
            [k \in 1..n |-> k], is_test).ds

\* a training loop whose batch size varies from call to call
InitDS ==
    /\ IdlePipe
    /\ \E n \in 1..MaxData, t \in BOOLEAN : ds = NewDataSet(n, t)
    /\ fixed_b = 0
    /\ last_call = NoCall
    /\ epoch_log = <<>>
    /\ reshuffled_once = FALSE
    /\ held = <<>>
    /\ hold_limit = 0
    /\ order = Identity(ds.data_size)
    /\ IdleCodec
    /\ IdleOneHot

\* a training loop that asks for the same batch size every time
InitEpoch ==
    /\ IdlePipe
    /\ \E n \in 1..MaxEpochData : ds = NewDataSet(n, FALSE)
    /\ fixed_b \in 1..(ds.data_size + 1)
    /\ last_call = NoCall
    /\ epoch_log = <<>>
    /\ reshuffled_once = FALSE
    /\ held = <<>>
    /\ hold_limit = 0
    /\ order = Identity(ds.data_size)
    /\ IdleCodec
    /\ IdleOneHot

\* the training loop calls get_batch(b)
GetBatch ==
    \E b \in 1..(ds.data_size + 1) :
        /\ fixed_b = 0 \/ b = fixed_b
        /\ \E perm \in Shuffles(ds, b) :
           /\ \E r \in {get_batch(ds, b, perm)} :
               /\ ds' = r.ds
               /\ order' = IF r.shuffled
                           THEN [j \in 1..Len(perm) |-> order[perm[j]]]
                           ELSE order
               /\ last_call' = [batch_size |-> b,
                                outcome |-> IF r.raised THEN "AssertionError" ELSE "ok",
                                features |-> r.features, moves |-> r.moves,
                                shuffled |-> r.shuffled]
               /\ epoch_log' = IF r.raised THEN epoch_log
                               ELSE IF r.shuffled THEN <<r.features.data>>
                               ELSE Append(epoch_log, r.features.data)
               /\ reshuffled_once' = (reshuffled_once \/ r.shuffled)
               /\ held' =
                    IF r.raised \/ hold_limit = 0 THEN held
                    ELSE LET start == r.ds.index_within_epoch - b
                             old == [k \in 1..Len(held) |->
                                       IF r.shuffled
                                       THEN [held[k] EXCEPT
                                               !.features = after_reorder(@, r.ds.pos_features),
                                               !.moves = after_reorder(@, r.ds.next_moves)]
                                       ELSE held[k]]
                             new == [features |-> view(r.ds.pos_features, start, start + b),
                                     moves |-> view(r.ds.next_moves, start, start + b),
                                     returned |-> [features |-> r.features,
                                                   moves |-> r.moves]]
                         IN  LastN(Append(old, new), hold_limit)
        /\ UNCHANGED <<fixed_b, hold_limit, pipeVars, codecVars, ohVars>>

NextDS == GetBatch

SpecDS == InitDS /\ [][NextDS]_vars

SpecEpoch == InitEpoch /\ [][NextDS]_vars

\* a training loop that never stops asking for batches of one size, which
\* the DataSet accepts
InitLive ==
    /\ IdlePipe
    /\ \E n \in 2..MaxLiveData : ds = NewDataSet(n, FALSE)
    /\ fixed_b \in 1..(ds.data_size - 1)
    /\ last_call = NoCall
    /\ epoch_log = <<>>
    /\ reshuffled_once = FALSE
    /\ held = <<>>
    /\ hold_limit = 0
    /\ order = Identity(ds.data_size)
    /\ IdleCodec
    /\ IdleOneHot

\* a DataSet that is written to a chunk file at some point between the
\* get_batch calls of a training loop
InitFrame ==
    /\ IdlePipe
    /\ \E n \in 1..MaxFrameData, t \in BOOLEAN : ds = NewDataSet(n, t)
    /\ fixed_b = 0
    /\ last_call = NoCall
    /\ epoch_log = <<>>
    /\ reshuffled_once = FALSE
    /\ held = <<>>
    /\ hold_limit = 0
    /\ order = Identity(ds.data_size)
    /\ byteorder = "little"
    /\ chunk_file = <<>>
    /\ codec_pc = "new"
    /\ read_result = [raised |-> FALSE]
    /\ read_offset = 0
    /\ IdleOneHot

\* a training loop that asks for batches of one size, which the DataSet
\* accepts, and keeps hold of the batches it was given last
InitAlias ==
    /\ IdlePipe
    /\ \E n \in 2..MaxAliasData, t \in BOOLEAN : ds = NewDataSet(n, t)
    /\ fixed_b \in 1..(ds.data_size - 1)
    /\ last_call = NoCall
    /\ epoch_log = <<>>
    /\ reshuffled_once = FALSE
    /\ held = <<>>
    /\ hold_limit = MaxHeld
    /\ order = Identity(ds.data_size)
    /\ IdleCodec
    /\ IdleOneHot

SpecAlias == InitAlias /\ [][NextDS]_vars

\* weak fairness of GetBatch, WF_vars(GetBatch), written out as its
\* definition: the loop makes a call infinitely often unless none is possible
CallsForever == []<><<GetBatch>>_vars \/ []<>~ENABLED <<GetBatch>>_vars

SpecEpochLive == InitLive /\ [][NextDS]_vars /\ CallsForever

\* ------------------------------------------------------------ chunk codec
CHUNK_HEADER_FORMAT == <<"i", "i", "i", "?">>

\* struct's native sizes; a native-mode item is aligned to its own size
size_of(code) == IF code = "i" THEN 4 ELSE 1

RECURSIVE calcsize_from(_, _)
calcsize_from(fmt, offset) ==
    IF fmt = <<>> THEN offset
    ELSE LET sz == size_of(Head(fmt))
             aligned == ((offset + sz - 1) \div sz) * sz
         IN  calcsize_from(Tail(fmt), aligned + sz)

calcsize(fmt) == calcsize_from(fmt, 0)

CHUNK_HEADER_SIZE == calcsize(CHUNK_HEADER_FORMAT)

Reverse(q) == [k \in 1..Len(q) |-> q[Len(q) + 1 - k]]

\* the low byte first
little_bytes(u, width) == [k \in 1..width |-> (u \div (256 ^ (k - 1))) % 256]

RECURSIVE little_value(_)
little_value(q) == IF q = <<>> THEN 0 ELSE Head(q) + 256 * little_value(Tail(q))

Complement(q) == [k \in 1..Len(q) |-> 255 - q[k]]

\* the width bytes of the two's complement integer v in the byte order bo
\* (the bits of a negative v are the inverted bits of -v-1)
signed_bytes(v, width, bo) ==
    LET le == IF v >= 0 THEN little_bytes(v, width)
              ELSE Complement(little_bytes(0 - (v + 1), width))
    IN  IF bo = "little" THEN le ELSE Reverse(le)

bytes_signed(q, bo) ==
    LET le == IF bo = "little" THEN q ELSE Reverse(q)
    IN  IF le[Len(le)] >= 128 THEN 0 - little_value(Complement(le)) - 1
        ELSE little_value(le)

\* struct.pack(CHUNK_HEADER_FORMAT, data_size, board_size, input_planes, is_test)
pack_header(data_size, board_size, input_planes, is_test, bo) ==
    signed_bytes(data_size, 4, bo) \o signed_bytes(board_size, 4, bo)
        \o signed_bytes(input_planes, 4, bo) \o <<IF is_test THEN 1 ELSE 0>>

\* a reader that drops the test flag
unpack_header_no_flag(q, bo) ==
    IF Len(q) # calcsize(CHUNK_HEADER_FORMAT)
    THEN [raised |-> TRUE]
    ELSE [raised |-> FALSE,
          data_size |-> bytes_signed(SubSeq(q, 1, 4), bo),
          board_size |-> bytes_signed(SubSeq(q, 5, 8), bo),
          input_planes |-> bytes_signed(SubSeq(q, 9, 12), bo),
          is_test |-> FALSE]

\* struct.unpack(CHUNK_HEADER_FORMAT, header_bytes)
unpack_header(q, bo) ==
    IF Len(q) # calcsize(CHUNK_HEADER_FORMAT)
    THEN [raised |-> TRUE]
    ELSE [raised |-> FALSE,
          data_size |-> bytes_signed(SubSeq(q, 1, 4), bo),
          board_size |-> bytes_signed(SubSeq(q, 5, 8), bo),
          input_planes |-> bytes_signed(SubSeq(q, 9, 12), bo),
          is_test |-> q[13] # 0]

\* ndarray.tostring(): the elements in row-major order, width bytes each.
\* A float32 element is modelled by its 32 bits, read as a two's
\* complement integer; an int16 element by its value.
RECURSIVE tostring(_, _, _)
tostring(data, width, bo) ==
    IF data = <<>> THEN <<>>
    ELSE signed_bytes(Head(data), width, bo) \o tostring(Tail(data), width, bo)

\* np.fromstring(bytes, dtype): fails unless the length is a multiple of
\* the element width
fromstring(q, width, bo) ==
    IF Len(q) % width # 0
    THEN [raised |-> TRUE, data |-> <<>>]
    ELSE [raised |-> FALSE,
          data |-> [k \in 1..(Len(q) \div width) |->
                      bytes_signed(SubSeq(q, (k - 1) * width + 1, k * width), bo)]]

\* ndarray.reshape(shape): fails unless the sizes agree
reshape(r, shape) ==
    IF r.raised \/ Len(r.data) # Product(shape)
    THEN [raised |-> TRUE, array |-> NoArray]
    ELSE [raised |-> FALSE, array |-> [shape |-> shape, data |-> r.data]]

\* f.read(count) at the given offset: fewer bytes at the end of the file
file_read(file, offset, count) ==
    SubSeq(file, offset + 1, Min(offset + count, Len(file)))

\* DataSet.write: the bytes handed to the gzip stream
write_bytes(d, bo) ==
    pack_header(d.data_size, d.board_size, d.input_planes, d.is_test, bo)
        \o tostring(d.pos_features.data, 4, bo)
        \o tostring(d.next_moves.data, 2, bo)

\* DataSet.read on the bytes the gzip stream gives back
read(file, bo) ==
    LET header_bytes == file_read(file, 0, CHUNK_HEADER_SIZE)
        h == unpack_header(header_bytes, bo)
    IN  IF h.raised THEN [raised |-> TRUE, offset |-> Len(header_bytes)]
        ELSE
        LET off1 == Len(header_bytes)
            position_bytes ==
                file_read(file, off1, h.data_size * h.board_size * h.board_size
                                         * h.input_planes * 4)
            off2 == off1 + Len(position_bytes)
            next_move_bytes ==
                file_read(file, off2, h.data_size * h.board_size * h.board_size * 2)
            off3 == off2 + Len(next_move_bytes)
            pos_features ==
                reshape(fromstring(position_bytes, 4, bo),
                        <<h.data_size, h.board_size, h.board_size, h.input_planes>>)
            next_moves ==
                reshape(fromstring(next_move_bytes, 2, bo),
                        <<h.data_size, h.board_size * h.board_size>>)
        IN  IF pos_features.raised \/ next_moves.raised
            THEN [raised |-> TRUE, offset |-> off3]
            ELSE LET d == DataSet(pos_features.array, next_moves.array, <<>>,
                                  h.is_test)
                 IN  [raised |-> d.raised, offset |-> off3, ds |-> d.ds]

\* element values the written arrays are filled with: the bits of 0.0,
\* 1.0, -0.0, a NaN and the all-ones pattern; the int16 extremes
Float32Bits == <<0, 127 * 2^23, (0 - 2^30) * 2, 511 * 2^22, 0 - 1>>
Int16Values == <<0, 1, 0 - 1, 2^15 - 1, 0 - 2^15>>

Fill(values, count, seed) ==
    [k \in 1..count |-> values[((seed + k) % Len(values)) + 1]]

InitCodec ==
    /\ IdlePipe
    /\ byteorder \in {"little", "big"}
    /\ \E n \in 0..MaxChunkData, s \in 1..MaxBoard, p \in 1..MaxPlanes,
          t \in BOOLEAN, fseed \in 0..4, mseed \in 0..4 :
          ds = DataSet([shape |-> <<n, s, s, p>>,
                        data |-> Fill(Float32Bits, n * s * s * p, fseed)],
                       [shape |-> <<n, s * s>>,
                        data |-> Fill(Int16Values, n * s * s, mseed)],
                       [k \in 1..n |-> k], t).ds
    /\ fixed_b = 0
    /\ last_call = NoCall
    /\ epoch_log = <<>>
    /\ reshuffled_once = FALSE
    /\ held = <<>>
    /\ hold_limit = 0
    /\ order = <<>>
    /\ chunk_file = <<>>
    /\ codec_pc = "new"
    /\ read_result = [raised |-> FALSE]
    /\ read_offset = 0
    /\ IdleOneHot

\* ds.write(filename)
WriteChunk ==
    /\ codec_pc = "new"
    /\ chunk_file' = write_bytes(ds, byteorder)
    /\ codec_pc' = "written"
    /\ UNCHANGED <<pipeVars, dsVars, ohVars, byteorder, read_result, read_offset>>

\* DataSet.read(filename)
ReadChunk ==
    /\ codec_pc = "written"
    /\ \E r \in {read(chunk_file, byteorder)} :
          /\ read_result' = r
          /\ read_offset' = r.offset
    /\ codec_pc' = "read"
    /\ UNCHANGED <<pipeVars, dsVars, ohVars, byteorder, chunk_file>>

NextCodec == WriteChunk \/ ReadChunk

SpecCodec == InitCodec /\ [][NextCodec]_vars

\* get_batch calls, with one write of the DataSet at any point among them
NextFrame == GetBatch \/ WriteChunk

SpecFrame == InitFrame /\ [][NextFrame]_vars

\* ------------------------------------------------------------ make_onehot
\* The conversion of a Python integer to np.int16 by np.fromiter: a value
\* outside the int16 range is wrapped or refused, depending on the numpy.
to_int16(x, wraps) ==
    IF 0 - 2^15 <= x /\ x < 2^15 THEN [raised |-> FALSE, value |-> x]
    ELSE IF wraps
         THEN [raised |-> FALSE, value |-> ((x + 2^15) % 2^16) - 2^15]
         ELSE [raised |-> TRUE, value |-> 0]

\* the offsets left unscaled: np.arange(num_labels)
index_offset_unscaled(r, classes) == r

\* np.arange(num_labels) * num_classes, at row r (rows counted from 0)
index_offset(r, classes) == r * classes

\* make_onehot(dense_labels, num_classes).  The array returned is zero
\* but for the flat positions assigned 1, so it is modelled by its shape
\* and the set of those positions (counted from 0); a negative flat index
\* counts from the end, one outside the array is an IndexError.
make_onehot(labels, classes, wraps) ==
    LET num_labels == Len(labels)
        conv == [r \in 1..num_labels |-> to_int16(labels[r], wraps)]
        size == num_labels * classes
        flat == [r \in 1..num_labels |->
                    index_offset(r - 1, classes) + conv[r].value]
    IN  IF \E r \in 1..num_labels : conv[r].raised
        THEN [status |-> "OverflowError"]
        ELSE IF \E r \in 1..num_labels : flat[r] >= size \/ flat[r] < 0 - size
        THEN [status |-> "IndexError"]
        ELSE [status |-> "ok",
              shape |-> <<num_labels, classes>>,
              ones |-> {IF flat[r] < 0 THEN flat[r] + size ELSE flat[r] :
                           r \in 1..num_labels}]

\* the element at row r, column c of a one-hot result (both from 0)
OneHotAt(a, r, c) == IF r * a.shape[2] + c \in a.ones THEN 1 ELSE 0

\* class counts tried: the small ones, and those around the int16 limit
ClassCounts == (1..MaxClasses) \cup {2^15, 2^15 + 1}

\* move indices tried for a class count: all of the small ones, else the
\* ends of the range
LabelChoices(classes) ==
    IF classes <= MaxClasses THEN 0..(classes - 1)
    ELSE {0, 1, classes - 2, classes - 1}

InitOneHot ==
    /\ IdlePipe
    /\ IdleDS
    /\ IdleCodec
    /\ num_classes \in ClassCounts
    /\ \E n \in 0..MaxLabels : dense_labels \in [1..n -> LabelChoices(num_classes)]
    /\ int16_wraps \in BOOLEAN
    /\ labels_one_hot = Pending

MakeOneHot ==
    /\ labels_one_hot = Pending
    /\ labels_one_hot' = make_onehot(dense_labels, num_classes, int16_wraps)
    /\ UNCHANGED <<pipeVars, dsVars, codecVars, dense_labels, num_classes,
                   int16_wraps>>

NextOneHot == MakeOneHot

SpecOneHot == InitOneHot /\ [][NextOneHot]_vars

\* ---------------------------------------------------------- properties
RECURSIVE Concat(_)
Concat(gs) == IF gs = <<>> THEN <<>> ELSE Head(gs) \o Concat(Tail(gs))

\* C1: in the large-corpus branch the test subset is the first
\* min(desired_test_size, n) records, every training group is non-empty,
\* every group but the last has exactly CHUNK_SIZE records, and the test
\* subset followed by the groups, in order, is the input sequence.
C1_LargeSplit ==
    (~IsSmall(est_num_positions) /\ pc \in {"split", "exhausted"}) =>
        /\ test_chunk = SubSeq(stream, 1, Min(desired_test_size, Len(stream)))
        /\ Len(test_chunk) <= desired_test_size
        /\ \A g \in 1..Len(groups) :
              /\ groups[g] # <<>>
              /\ Len(groups[g]) <= CHUNK_SIZE
              /\ g < Len(groups) => Len(groups[g]) = CHUNK_SIZE
        /\ test_chunk \o Concat(groups) = SubSeq(stream, 1, it_pos)
        /\ pc = "exhausted" => test_chunk \o Concat(groups) = stream

C1_Witness ==
    /\ ~IsSmall(est_num_positions)
    /\ pc = "exhausted"
    /\ Len(groups) >= 2
    /\ Len(groups[Len(groups)]) < CHUNK_SIZE

\* C5: in the small-corpus branch the whole input is consumed, test is
\* its first n // 3 records and the single training group is the rest.
C5_SmallSplit ==
    (IsSmall(est_num_positions) /\ pc \in {"split", "exhausted"}) =>
        LET n == Len(stream)
        IN  /\ it_pos = n
            /\ training_chunks.kind = "list"
            /\ Len(training_chunks.items) = 1
            /\ test_chunk = SubSeq(stream, 1, n \div 3)
            /\ training_chunks.items[1] = SubSeq(stream, (n \div 3) + 1, n)
            /\ Len(test_chunk) + Len(training_chunks.items[1]) = n
            /\ pc = "exhausted" => groups = training_chunks.items

C5_Witness ==
    /\ IsSmall(est_num_positions)
    /\ pc = "exhausted"
    /\ Len(stream) > 2 * desired_test_size
    /\ Len(stream) % 3 # 0

ErrorConsumed == \E k \in 1..it_pos : stream[k] = IOError

\* C2: an I/O failure met while the position stream is consumed leaves
\* process_raw_data as an exception; nothing runs (or is written) after it.
C2_IOFailurePropagates ==
    ErrorConsumed => (pc = "raised" /\ exc = "IOError")

\* C3: a large-corpus run whose stream has at most desired_test_size
\* records ends without raising, with the test chunk and no training chunk
\* (stated here for a non-empty stream, whose test chunk can be built).
C3_UnderflowCompletes ==
    (/\ ~IsSmall(est_num_positions)
     /\ ErrorPositions(stream) = {}
     /\ Len(stream) >= 1
     /\ Len(stream) <= desired_test_size
     /\ pc \in {"raised", "done"}) =>
        /\ pc = "done"
        /\ exc = ""
        /\ Len(written) = 1
        /\ written[1].name = <<"test">>

WrittenNames == [k \in 1..Len(written) |-> written[k].name]

\* C6: the files written are the test chunk, then train0, train1, ... in
\* order, each once; a run that completes has written one per group.
C6_WriteOrder ==
    /\ WrittenNames = SubSeq(<<  <<"test">>  >> \o
                             [k \in 1..Len(groups) |-> <<"train", k - 1>>],
                             1, Len(written))
    /\ pc = "done" => Len(written) = 1 + Len(groups)

C6_Witness ==
    /\ pc = "done"
    /\ Len(groups) >= 2
    /\ written[3].name = <<"train", 1>>

\* the records pulled from the position stream so far
Pulled == Records(SubSeq(stream, 1, it_pos))

\* C12: in the large-corpus branch nothing is read ahead.  When the split
\* has returned, the records pulled are exactly the test subset, the first
\* min(desired_test_size, n) records of a stream that delivered them all;
\* when training chunk i is being written or has just been written, at
\* most desired_test_size + CHUNK_SIZE * (i + 1) records have been pulled
\* and a group is only pulled once every earlier chunk is written; the
\* records pulled are, in order and each once, the test subset followed by
\* the groups.
C12_NoReadAhead ==
    (~IsSmall(est_num_positions) /\ pc # "start") =>
        /\ Pulled = test_chunk \o Concat(groups)
        /\ \A k \in 1..Len(Pulled) : Pulled[k] = k
        /\ Len(groups) = i + 1
        /\ Len(Pulled) <= desired_test_size + CHUNK_SIZE * (i + 1)
        /\ Len(groups) <= Len(written)
        /\ pc = "write_train" => Len(written) = i + 1
        /\ (pc = "write_test" /\ ~ErrorConsumed) =>
              /\ Len(Pulled) = Min(desired_test_size, Len(Records(stream)))
              /\ Pulled = test_chunk
              /\ groups = <<>>

C12_Witness ==
    /\ ~IsSmall(est_num_positions)
    /\ ErrorPositions(stream) = {}
    /\ pc = "write_train"
    /\ i = 1
    /\ Len(Pulled) = desired_test_size + 2 * CHUNK_SIZE
    /\ Len(Pulled) < Len(stream)

\* C14: process_raw_data builds and writes a test chunk for every test
\* subset the splitter returns, the empty one included:
\* from_positions_w_context gives a DataSet of as many examples as it is
\* given records, in their order.
C14_TestChunkBuilt ==
    (pc \notin {"start", "write_test"} /\ exc # "IOError") =>
        /\ exc # "ValueError"
        /\ Len(written) >= 1
        /\ written[1].name = test_filename
        /\ written[1].is_test
        /\ written[1].recs = test_chunk

\* ------------------------------------------------------ batch iterator
FixedNonDividing ==
    /\ fixed_b < ds.data_size
    /\ ds.data_size % fixed_b # 0

\* a further get_batch(fixed_b) has to reshuffle
ReshuffleForced == ds.index_within_epoch + fixed_b > ds.data_size

\* how often example k was returned since the latest reshuffle
Occurrences(k) ==
    Cardinality({jm \in (1..Len(epoch_log)) \X (1..(ds.data_size + 1)) :
                    /\ jm[2] <= Len(epoch_log[jm[1]])
                    /\ epoch_log[jm[1]][jm[2]] = k})

\* C4 as stated: when the batches of one ordering have been drawn and a
\* reshuffle is forced, every example was returned in exactly one batch.
C4_EpochCoversAll ==
    (FixedNonDividing /\ ReshuffleForced) =>
        \A k \in 1..ds.data_size : Occurrences(k) = 1

\* C4 amended: the batches of one ordering are the floor(n/b) consecutive
\* slices of its first floor(n/b)*b rows, so no example is returned twice
\* and the last n mod b rows of the ordering are returned in no batch.
C4_EpochDisjoint ==
    FixedNonDividing =>
        LET n == ds.data_size
            full == n \div fixed_b
        IN  /\ \A k \in 1..n : Occurrences(k) <= 1
            /\ Len(epoch_log) <= full
            /\ Concat(epoch_log) =
                  SubSeq(ds.pos_features.data, 1, Len(epoch_log) * fixed_b)
            /\ ReshuffleForced =>
                  /\ Len(epoch_log) = full
                  /\ \A r \in 1..n :
                        Occurrences(ds.pos_features.data[r]) =
                            (IF r <= full * fixed_b THEN 1 ELSE 0)

C4_Witness ==
    /\ FixedNonDividing
    /\ ReshuffleForced
    /\ reshuffled_once
    /\ Len(epoch_log) >= 2
    /\ \E k \in 1..ds.data_size : Occurrences(k) = 0

\* C8: a call with batch_size >= data_size fails the assertion, returns no
\* batch and leaves the DataSet (cursor and arrays included) as it was.
C8_TooLargeBatchFails ==
    [][last_call'.batch_size >= ds.data_size =>
          /\ last_call'.outcome = "AssertionError"
          /\ last_call'.features = NoArray
          /\ last_call'.moves = NoArray
          /\ ds' = ds]_vars

C8_Witness ==
    /\ last_call.outcome = "AssertionError"
    /\ last_call.batch_size = ds.data_size
    /\ ds.index_within_epoch > 0
    /\ reshuffled_once

\* C9: with a fixed batch size b < n that does not divide n, reshuffles
\* happen again and again, and the call that reshuffles draws rows [0, b)
\* of the new ordering and leaves the cursor at b.
C9_ReshufflesForever ==
    /\ []<>(FixedNonDividing => last_call.shuffled)
    /\ [](last_call.shuffled =>
            /\ ds.index_within_epoch = last_call.batch_size
            /\ last_call.features.data =
                  SubSeq(ds.pos_features.data, 1, last_call.batch_size)
            /\ last_call.moves.data =
                  SubSeq(ds.next_moves.data, 1, last_call.batch_size))

C9_Witness ==
    /\ FixedNonDividing
    /\ last_call.shuffled
    /\ ds.index_within_epoch = fixed_b
    /\ ds.pos_features.data # [k \in 1..ds.data_size |-> k]

\* the (feature row, move row) pairs of two arrays, row by row
Pairs(f, m) == [r \in 1..NumRows(f) |-> <<Row(f, r), Row(m, r)>>]

\* the pairs the DataSet held at construction: example k is <<k>>, <<-k>>
OriginalPairs == {<< <<k>>, <<0 - k>> >> : k \in 1..ds.data_size}

\* C11: after any get_batch calls both arrays have data_size rows, the
\* (feature row, move row) pairs held are a permutation of the pairs held
\* at construction, and every batch returned pairs each feature row with
\* its own move row.
C11_PairsPermuted ==
    LET pairs == Pairs(ds.pos_features, ds.next_moves)
    IN  /\ NumRows(ds.pos_features) = ds.data_size
        /\ NumRows(ds.next_moves) = ds.data_size
        /\ Len(ds.pos_features.data) = ds.data_size
        /\ Len(ds.next_moves.data) = ds.data_size
        /\ {pairs[r] : r \in 1..ds.data_size} = OriginalPairs
        /\ ds.pos_features.data = order
        /\ last_call.outcome = "ok" =>
              /\ NumRows(last_call.features) = NumRows(last_call.moves)
              /\ \A j \in 1..NumRows(last_call.features) :
                    <<Row(last_call.features, j), Row(last_call.moves, j)>>
                        \in OriginalPairs

C11_Witness ==
    /\ reshuffled_once
    /\ last_call.outcome = "ok"
    /\ ~last_call.shuffled
    /\ ds.data_size >= 3
    /\ ds.pos_features.data # Identity(ds.data_size)
    /\ last_call.features.data[1] #
          ds.index_within_epoch - last_call.batch_size + 1

\* C13: with batch sizes that vary from call to call the cursor stays in
\* 0..data_size; a successful call returns exactly batch_size examples,
\* rows [c, c + batch_size) of the current ordering, c being the cursor
\* before the call or 0 if the call reshuffled, and leaves the cursor at
\* c + batch_size; a call with cursor + batch_size = data_size does not
\* reshuffle.
C13_CursorAndSlice ==
    /\ [](0 <= ds.index_within_epoch /\ ds.index_within_epoch <= ds.data_size)
    /\ [][last_call'.outcome = "ok" =>
            LET b == last_call'.batch_size
                c == IF last_call'.shuffled THEN 0 ELSE ds.index_within_epoch
            IN  /\ b < ds.data_size
                /\ NumRows(last_call'.features) = b
                /\ NumRows(last_call'.moves) = b
                /\ last_call'.features.data =
                      SubSeq(ds'.pos_features.data, c + 1, c + b)
                /\ last_call'.moves.data =
                      SubSeq(ds'.next_moves.data, c + 1, c + b)
                /\ Len(last_call'.features.data) = b
                /\ ds'.index_within_epoch = c + b
                /\ last_call'.shuffled <=>
                      ds.index_within_epoch + b > ds.data_size]_vars

C13_Witness ==
    /\ reshuffled_once
    /\ last_call.outcome = "ok"
    /\ ~last_call.shuffled
    /\ ds.index_within_epoch = ds.data_size
    /\ Len(epoch_log) = 2
    /\ Len(epoch_log[1]) # Len(epoch_log[2])

\* C15: no step changes results, is_test, data_size, board_size or
\* input_planes; a get_batch call that does not reshuffle changes nothing
\* of the DataSet but the cursor; write changes nothing of the DataSet; so
\* the cursor changes only in a get_batch call, one that returns a batch.
C15_Frame ==
    [][/\ ds'.results = ds.results
       /\ ds'.is_test = ds.is_test
       /\ ds'.data_size = ds.data_size
       /\ ds'.board_size = ds.board_size
       /\ ds'.input_planes = ds.input_planes
       /\ (codec_pc' = codec_pc /\ ~last_call'.shuffled) =>
             /\ ds'.pos_features = ds.pos_features
             /\ ds'.next_moves = ds.next_moves
             /\ ds' = [ds EXCEPT !.index_within_epoch = ds'.index_within_epoch]
       /\ codec_pc' # codec_pc =>
             /\ ds' = ds
             /\ chunk_file' = write_bytes(ds, byteorder)
       /\ ds'.index_within_epoch # ds.index_within_epoch =>
             /\ codec_pc' = codec_pc
             /\ last_call'.outcome = "ok"]_vars

C15_Witness ==
    /\ codec_pc = "written"
    /\ reshuffled_once
    /\ last_call.outcome = "ok"
    /\ ~last_call.shuffled
    /\ ds.index_within_epoch > 0
    /\ ds.pos_features.data # Identity(ds.data_size)
    /\ ds.results = Identity(ds.data_size)
    /\ chunk_file = write_bytes(ds, byteorder)

\* C16: a batch the caller still holds reads as it did when get_batch
\* returned it, whatever calls (reshuffling ones included) came after.
C16_ReturnedBatchesKept ==
    \A k \in 1..Len(held) :
        /\ contents(held[k].features) = held[k].returned.features
        /\ contents(held[k].moves) = held[k].returned.moves

C16_Witness ==
    /\ Len(held) = MaxHeld
    /\ ~held[1].features.of_current
    /\ held[Len(held)].features.of_current
    /\ contents(held[1].features) #
          Slice(ds.pos_features, held[1].features.start, held[1].features.end)
    /\ contents(held[1].moves) #
          Slice(ds.next_moves, held[1].moves.start, held[1].moves.end)

\* ------------------------------------------------------------ chunk codec
\* C7: reading back what was written gives the same feature and move
\* arrays, sizes and test flag, and no results; the header is 13 bytes and
\* the reader consumes the whole file.
C7_RoundTrip ==
    codec_pc = "read" =>
        /\ ~read_result.raised
        /\ read_result.ds.pos_features = ds.pos_features
        /\ read_result.ds.next_moves = ds.next_moves
        /\ read_result.ds.data_size = ds.data_size
        /\ read_result.ds.board_size = ds.board_size
        /\ read_result.ds.input_planes = ds.input_planes
        /\ read_result.ds.is_test = ds.is_test
        /\ read_result.ds.results = <<>>
        /\ CHUNK_HEADER_SIZE = 13
        /\ Len(chunk_file) = 13 + 4 * Len(ds.pos_features.data)
                                + 2 * Len(ds.next_moves.data)
        /\ read_offset = Len(chunk_file)

C7_Witness ==
    /\ codec_pc = "read"
    /\ ds.data_size = 2
    /\ ds.board_size = 2
    /\ ds.is_test
    /\ ds.results # <<>>
    /\ \E k \in 1..Len(ds.next_moves.data) : ds.next_moves.data[k] < 0
    /\ \E k \in 1..Len(ds.pos_features.data) : ds.pos_features.data[k] < 0

\* ------------------------------------------------------------ make_onehot
OneHotRows ==
    /\ labels_one_hot.status = "ok"
    /\ labels_one_hot.shape = <<Len(dense_labels), num_classes>>
    /\ \A r \in 1..Len(dense_labels) :
          /\ \A c \in 0..(num_classes - 1) :
                OneHotAt(labels_one_hot, r - 1, c) =
                    (IF c = dense_labels[r] THEN 1 ELSE 0)
          /\ Cardinality({c \in 0..(num_classes - 1) :
                             OneHotAt(labels_one_hot, r - 1, c) = 1}) = 1
    /\ labels_one_hot.ones \subseteq 0..(Len(dense_labels) * num_classes - 1)

====
